---- MODULE Spec2Model ----
(***************************************************************************)
(* The frame pipeline of antimodern: Renderer::render and                  *)
(* GPUContext::resize_surface (src/src/renderer.rs) and the standalone     *)
(* event loop of src/src/main.rs, as one state machine.                    *)
(*                                                                         *)
(* variant = "renderer": the GPUContext/Renderer pair of renderer.rs.      *)
(*   render is an async fn, so every statement group between two           *)
(*   suspension points is one action of a frame pipeline (a task) and the  *)
(*   awaits are resolved by separate actions.  render takes `&mut self`    *)
(*   and `&GPUContext`, resize_surface takes `&mut self`: the borrow rules *)
(*   are the guards of RenderBegin and resize_surface_width.               *)
(* variant = "main": the synchronous event loop of main.rs, whose          *)
(*   handlers run to completion.                                           *)
(***************************************************************************)
EXTENDS Integers, Sequences, FiniteSets, TLC

\* ---------------------------------------------------------------- bounds
MaxFrames == 4

\* ------------------------------------------------------- program constants
NUM_MAX_INFLIGHT_BUFFERS == 3

InitialCursor == 3

Slots == 0 .. (NUM_MAX_INFLIGHT_BUFFERS - 1)

Tasks == {1, 2}

\* The window sizes an event can carry.
Sizes == {[width |-> 640, height |-> 360], [width |-> 1280, height |-> 720]}

InnerSize == [width |-> 640, height |-> 360]

\* A size beyond what the device's limits (wgpu::Limits::default()) allow.
Oversize == [width |-> 16384, height |-> 16384]

\* The sizes a window event can carry.
EventSizes == Sizes \cup {Oversize}

LibOutcomes == {"applied", "panic"}

NoSize == [width |-> 0, height |-> 0]

\* A vector in the XZ plane, kept in polar form: the point (r/10, 0, 0)
\* rotated k times by 0.1 radian about the Y axis.  The zero vector is
\* its own image under every rotation.
ZeroVec == [r |-> 0, k |-> 0]

\* let instances = [vec3(0., 0., 0.), vec3(-0.5, 0., 0.), vec3(0.5, 0., 0.)];
Instances == <<[r |-> 0, k |-> 0], [r |-> -5, k |-> 0], [r |-> 5, k |-> 0]>>

\* A buffer made by create_buffer (not create_buffer_init) is zero-filled.
ZeroedBuffer == <<ZeroVec, ZeroVec, ZeroVec>>

MapErrors == {"Ok", "BufferAsyncError"}

SurfaceResults == {"Ok", "Timeout", "Outdated", "Lost", "OutOfMemory"}

RenderOrder ==
  <<"advance", "read_map", "transform", "unmap_read", "write_map", "copy",
    "unmap_write", "acquire", "record", "submit", "present", "work_done">>

\* The surface before its first configure call.
NoConfig ==
  [format |-> "none", width |-> 0, height |-> 0, present_mode |-> "none"]

\* let vertices = [vec3(-0.1, -0.1, 0.), vec3(0., 0.1, 0.), vec3(0.1, -0.1, 0.)]
\* in tenths, and Mat4::orthographic_lh(-1., 1., -1., 1., 0., 1.)
CreatedBuffers ==
  [vertex_buffer |-> <<<<-1, -1, 0>>, <<0, 1, 0>>, <<1, -1, 0>>>>,
   uniform_buffer |-> "orthographic_lh(-1,1,-1,1,0,1)"]

NoBuffers == [vertex_buffer |-> <<>>, uniform_buffer |-> "none"]

VARIABLES
  variant,                \* which program runs
  phase,                  \* position in the startup code
  startupError,           \* the error the startup code returned
  staticBuffers,          \* vertex_buffer and uniform_buffer
  panicked,               \* the process died in expect()
  frame,                  \* Renderer.frame, the cursor behind the mutex
  cursorVer,              \* history: number of write-backs of the cursor
  pc,                     \* per task: position in render
  fr,                     \* per task: the local `frame`
  readVer,                \* history: cursorVer at the task's cursor read
  vertices,               \* per task: the local `vertices`
  result,                 \* per task: what the last render call returned
  mapError,               \* history: which map of the current call failed
  ready,                  \* per task: the result the device delivered
  steps,                  \* history: steps of the task's current call
  startContents,          \* history: the selected slot when the call began
  startWrites,            \* history: writes of the selected slot at begin
  mapping,                \* per task: its map operation on slot fr[t]
  contents,               \* per slot: the 3 vectors of instance_buffer[s]
  writes,                 \* history: write-back copies made into the slot
  surface_configuration,  \* GPUContext.surface_configuration
  surfaceApplied,         \* the configuration the surface was given
  resizePc,               \* position in resize_surface
  resizeArg,              \* the `size` argument of resize_surface
  lastResize,             \* history: size of the last handled resize event
  lastConfigure,          \* history: the last configure call and its result
  lastTarget,             \* dimensions of the last acquired frame target
  acquired,               \* history: number of frame targets acquired
  acquireError,           \* history: the last get_current_texture error
  gpuQueue,               \* submitted command buffers not yet executed
  submitted,              \* number of queue.submit calls
  doneTarget,             \* per task: submissions awaited by work-done
  frameCount,             \* number of render calls / redraws begun
  selected                \* history: slot indices selected, in call order

vars ==
  <<variant, phase, startupError, staticBuffers, panicked, frame, cursorVer, pc, fr, readVer, vertices, result,
    mapError, ready, steps, startContents, startWrites, mapping, contents, writes,
    surface_configuration, surfaceApplied, resizePc, resizeArg, lastResize,
    lastConfigure, lastTarget, acquired, acquireError, gpuQueue, submitted, doneTarget,
    frameCount, selected>>

bootVars == <<variant, phase, startupError, staticBuffers>>

taskVars ==
  <<pc, fr, readVer, vertices, result, mapError, ready, steps, startContents,
    startWrites, mapping, doneTarget>>

cursorVars == <<frame, cursorVer, selected>>

slotVars == <<contents, writes>>

surfaceVars ==
  <<surface_configuration, surfaceApplied, resizePc, resizeArg, lastResize,
    lastConfigure>>

targetVars == <<lastTarget, acquired, acquireError>>

gpuVars == <<gpuQueue, submitted>>

\* ------------------------------------------------------------- operators

\* frame = (frame + 1) % NUM_MAX_INFLIGHT_BUFFERS
AdvanceSkips(f) == (f + 2) % NUM_MAX_INFLIGHT_BUFFERS

\* An advance that wraps one slot early.
AdvanceWraps(f) == (f + 1) % (NUM_MAX_INFLIGHT_BUFFERS - 1)

Advance(f) == (f + 1) % NUM_MAX_INFLIGHT_BUFFERS

\* Mat3::from_rotation_y(0.1) * v
Rotate(v) == IF v.r = 0 THEN v ELSE [v EXCEPT !.k = @ + 1]

RotateAll(vs) == [i \in 1 .. 3 |-> Rotate(vs[i])]

\* SurfaceConfiguration { usage, format, width, height, present_mode }
SurfaceConfiguration(size) ==
  [format |-> "preferred", width |-> size.width, height |-> size.height,
   present_mode |-> "Fifo"]

SizeOf(cfg) == [width |-> cfg.width, height |-> cfg.height]

\* Whether the device can present a surface of this size.
Supported(size) == size \in Sizes

\* A render callable through a shared reference.
RendererShared == TRUE

\* `&mut self` of render: no other render call on this Renderer is alive.
RendererFree == \A u \in Tasks : pc[u] = "idle"

\* `&GPUContext` of render against `&mut self` of resize_surface.
ContextNotBorrowed == \A u \in Tasks : pc[u] = "idle"

\* A resize_surface callable through a shared reference.
ContextSharedMut == TRUE

\* `&mut self` of resize_surface against `&GPUContext` of render.
ContextNotBorrowedMut == resizePc = "idle"

Init ==
  /\ variant \in {"renderer", "main"}
  /\ phase = "adapter"
  /\ startupError = "none"
  /\ staticBuffers = NoBuffers
  /\ panicked = FALSE
  /\ frame = InitialCursor
  /\ cursorVer = 0
  /\ pc = [t \in Tasks |-> "idle"]
  /\ fr = [t \in Tasks |-> 0]
  /\ readVer = [t \in Tasks |-> 0]
  /\ vertices = [t \in Tasks |-> ZeroedBuffer]
  /\ result = [t \in Tasks |-> "none"]
  /\ mapError = [t \in Tasks |-> "none"]
  /\ ready = [t \in Tasks |-> "none"]
  /\ steps = [t \in Tasks |-> <<>>]
  /\ startContents = [t \in Tasks |-> ZeroedBuffer]
  /\ startWrites = [t \in Tasks |-> 0]
  /\ mapping = [t \in Tasks |-> "none"]
  /\ contents = [s \in Slots |-> ZeroedBuffer]
  /\ writes = [s \in Slots |-> 0]
  /\ surface_configuration = NoConfig
  /\ surfaceApplied = NoConfig
  /\ resizePc = "idle"
  /\ resizeArg = NoSize
  /\ lastResize = NoSize
  /\ lastConfigure = [size |-> NoSize, returned |-> "none"]
  /\ lastTarget = NoSize
  /\ acquired = 0
  /\ acquireError = "none"
  /\ gpuQueue = <<>>
  /\ submitted = 0
  /\ doneTarget = [t \in Tasks |-> 0]
  /\ frameCount = 0
  /\ selected = <<>>

\* ------------------------------------------------ Surface::configure

\* wgpu's Surface::configure returns (): a configuration the device
\* supports is applied; one it does not support is either applied with a
\* logged warning or ends the process in wgpu's fatal error handler.
SurfaceConfigure(cfg, lib) ==
  /\ Supported(SizeOf(cfg)) => lib = "applied"
  /\ IF lib = "applied"
       THEN surfaceApplied' = cfg /\ UNCHANGED panicked
       ELSE panicked' = TRUE /\ UNCHANGED surfaceApplied

\* What the caller of a configure call got back.
Returned(size, lib, value) ==
  [size |-> size, returned |-> IF lib = "applied" THEN value ELSE "panic"]

\* --------------------------------- startup: GPUContext::new and main

\* GPUContext::new asks for the adapter, the device, then the format;
\* main asks for the adapter, the format, then the device.
PhaseAfter(p) ==
  IF variant = "renderer"
    THEN CASE p = "adapter" -> "device"
           [] p = "device" -> "format"
           [] p = "format" -> "configure"
    ELSE CASE p = "adapter" -> "format"
           [] p = "format" -> "device"
           [] p = "device" -> "configure"

\* A failed request whose error is recorded and then ignored.
StartupStepUnchecked(at, ok, message) ==
  /\ phase = at
  /\ phase' = PhaseAfter(at)
  /\ startupError' = IF ok THEN startupError ELSE message
  /\ UNCHANGED <<variant, staticBuffers, panicked, cursorVars, taskVars,
                 slotVars, surfaceVars, targetVars, gpuVars, frameCount>>

\* <request>.context(message)?
StartupStep(at, ok, message) ==
  /\ phase = at
  /\ IF ok
       THEN phase' = PhaseAfter(at) /\ UNCHANGED startupError
       ELSE phase' = "failed" /\ startupError' = message
  /\ UNCHANGED <<variant, staticBuffers, panicked, cursorVars, taskVars,
                 slotVars, surfaceVars, targetVars, gpuVars, frameCount>>

\* instance.request_adapter(..).context("No adapter found")?
RequestAdapter(found) == StartupStep("adapter", found, "No adapter found")

\* adapter.request_device(..).context("No device found")?
RequestDevice(granted) == StartupStep("device", granted, "No device found")

\* surface.get_preferred_format(&adapter).context("There is no preferred format")?
GetPreferredFormat(found) ==
  StartupStep("format", found, "There is no preferred format")

\* surface.configure(&device, &surface_configuration) with window.inner_size()
ConfigureAtStartup ==
  /\ phase = "configure"
  /\ surface_configuration' = SurfaceConfiguration(InnerSize)
  /\ surfaceApplied' = SurfaceConfiguration(InnerSize)
  /\ lastConfigure' =
       Returned(InnerSize, "applied", IF variant = "main" THEN "Ok" ELSE "unit")
  /\ phase' = "create"
  /\ UNCHANGED <<variant, startupError, staticBuffers, panicked, cursorVars,
                 taskVars, slotVars, resizePc, resizeArg, lastResize,
                 targetVars, gpuVars, frameCount>>

\* Renderer::new: the cursor, the vertex, instance and uniform buffers, the
\* bind group and the pipeline.
CreateRenderer ==
  /\ phase = "create"
  /\ staticBuffers' = CreatedBuffers
  /\ phase' = "running"
  /\ UNCHANGED <<variant, startupError, panicked, cursorVars, taskVars,
                 slotVars, surfaceVars, targetVars, gpuVars, frameCount>>

\* ------------------------------------------------- Renderer::render steps

Running(t) == variant = "renderer" /\ phase = "running" /\ ~panicked

\* let mut frame = *self.frame.lock().await;
\* The guard is a temporary: the lock is released at the end of the statement.
RenderBegin(t) ==
  /\ Running(t)
  /\ pc[t] = "idle"
  /\ RendererFree
  /\ ContextNotBorrowedMut
  /\ frameCount < MaxFrames
  /\ frameCount' = frameCount + 1
  /\ fr' = [fr EXCEPT ![t] = frame]
  /\ readVer' = [readVer EXCEPT ![t] = cursorVer]
  /\ result' = [result EXCEPT ![t] = "none"]
  /\ mapError' = [mapError EXCEPT ![t] = "none"]
  /\ steps' = [steps EXCEPT ![t] = <<>>]
  /\ pc' = [pc EXCEPT ![t] = "advance"]
  /\ UNCHANGED <<bootVars, ready, panicked, cursorVars, vertices,
                 startContents, startWrites, mapping, doneTarget, slotVars,
                 surfaceVars, targetVars, gpuVars>>

\* frame = (frame + 1) % N; *self.frame.get_mut() = frame;
\* let instance_buffer = &self.instance_buffer[frame];
CursorWriteBack(t) ==
  /\ Running(t)
  /\ pc[t] = "advance"
  /\ LET f == Advance(fr[t]) IN
       /\ fr' = [fr EXCEPT ![t] = f]
       /\ frame' = f
       /\ selected' = Append(selected, f)
       /\ startContents' = [startContents EXCEPT ![t] = contents[f]]
       /\ startWrites' = [startWrites EXCEPT ![t] = writes[f]]
  /\ cursorVer' = cursorVer + 1
  /\ steps' = [steps EXCEPT ![t] = Append(@, "advance")]
  /\ pc' = [pc EXCEPT ![t] = "map_read"]
  /\ UNCHANGED <<mapError, bootVars, ready, panicked, readVer, vertices,
                 result, mapping, doneTarget, slotVars, surfaceVars,
                 targetVars, gpuVars, frameCount>>

\* instance_buffer_slice.map_async(wgpu::MapMode::Read)
MapReadRequest(t) ==
  /\ Running(t)
  /\ pc[t] = "map_read"
  /\ mapping' = [mapping EXCEPT ![t] = "pending_read"]
  /\ pc' = [pc EXCEPT ![t] = "await_read"]
  /\ UNCHANGED <<mapError, bootVars, ready, panicked, cursorVars, fr, readVer,
                 vertices, result, steps, startContents, startWrites,
                 doneTarget, slotVars, surfaceVars, targetVars, gpuVars,
                 frameCount>>

\* A failed read-map that asks for the mapping again instead of returning.
ReadMapRetried(t, outcome) ==
  /\ Running(t)
  /\ pc[t] = "await_read"
  /\ ready[t] = outcome
  /\ ready' = [ready EXCEPT ![t] = "none"]
  /\ IF outcome = "Ok"
       THEN /\ mapping' = [mapping EXCEPT ![t] = "live_read"]
            /\ steps' = [steps EXCEPT ![t] = Append(@, "read_map")]
            /\ pc' = [pc EXCEPT ![t] = "transform"]
       ELSE /\ mapping' = [mapping EXCEPT ![t] = "none"]
            /\ pc' = [pc EXCEPT ![t] = "map_read"]
            /\ UNCHANGED steps
  /\ UNCHANGED <<bootVars, panicked, cursorVars, fr, readVer, vertices,
                 result, mapError, startContents, startWrites, doneTarget,
                 slotVars, surfaceVars, targetVars, gpuVars, frameCount>>

\* A failed read-map that puts the cursor back before returning.
ReadMapRolledBack(t, outcome) ==
  /\ Running(t)
  /\ pc[t] = "await_read"
  /\ ready[t] = outcome
  /\ ready' = [ready EXCEPT ![t] = "none"]
  /\ IF outcome = "Ok"
       THEN /\ mapping' = [mapping EXCEPT ![t] = "live_read"]
            /\ steps' = [steps EXCEPT ![t] = Append(@, "read_map")]
            /\ pc' = [pc EXCEPT ![t] = "transform"]
            /\ UNCHANGED <<result, mapError, frame>>
       ELSE /\ mapping' = [mapping EXCEPT ![t] = "none"]
            /\ mapError' = [mapError EXCEPT ![t] = "read"]
            /\ result' = [result EXCEPT ![t] = "err"]
            /\ pc' = [pc EXCEPT ![t] = "idle"]
            /\ frame' = (fr[t] + NUM_MAX_INFLIGHT_BUFFERS - 1)
                           % NUM_MAX_INFLIGHT_BUFFERS
            /\ UNCHANGED steps
  /\ UNCHANGED <<bootVars, panicked, cursorVer, selected, fr, readVer,
                 vertices, startContents, startWrites, doneTarget, slotVars,
                 surfaceVars, targetVars, gpuVars, frameCount>>

\* .await?  on the read mapping: Ok goes on, Err returns from render.
ReadMapResolved(t, outcome) ==
  /\ Running(t)
  /\ pc[t] = "await_read"
  /\ ready[t] = outcome
  /\ ready' = [ready EXCEPT ![t] = "none"]
  /\ IF outcome = "Ok"
       THEN /\ mapping' = [mapping EXCEPT ![t] = "live_read"]
            /\ steps' = [steps EXCEPT ![t] = Append(@, "read_map")]
            /\ pc' = [pc EXCEPT ![t] = "transform"]
            /\ UNCHANGED <<result, mapError>>
       ELSE /\ mapping' = [mapping EXCEPT ![t] = "none"]
            /\ mapError' = [mapError EXCEPT ![t] = "read"]
            /\ result' = [result EXCEPT ![t] = "err"]
            /\ pc' = [pc EXCEPT ![t] = "idle"]
            /\ UNCHANGED steps
  /\ UNCHANGED <<bootVars, panicked, cursorVars, fr, readVer, vertices,
                 startContents, startWrites, doneTarget, slotVars,
                 surfaceVars, targetVars, gpuVars, frameCount>>

\* A transform that rotates the vectors in the mapped range itself.
TransformInPlace(t) ==
  /\ Running(t)
  /\ pc[t] = "transform"
  /\ vertices' = [vertices EXCEPT ![t] = RotateAll(contents[fr[t]])]
  /\ contents' = [contents EXCEPT ![fr[t]] = RotateAll(@)]
  /\ writes' = [writes EXCEPT ![fr[t]] = @ + 1]
  /\ steps' = [steps EXCEPT ![t] = Append(@, "transform")]
  /\ pc' = [pc EXCEPT ![t] = "unmap_read"]
  /\ UNCHANGED <<mapError, bootVars, ready, panicked, cursorVars, fr, readVer,
                 result, startContents, startWrites, mapping, doneTarget,
                 surfaceVars, targetVars, gpuVars, frameCount>>

\* let mut vertices = from_bytes(&get_mapped_range()).clone();
\* for v in vertices.iter_mut() { *v = Mat3::from_rotation_y(0.1) * *v; }
Transform(t) ==
  /\ Running(t)
  /\ pc[t] = "transform"
  /\ vertices' = [vertices EXCEPT ![t] = RotateAll(contents[fr[t]])]
  /\ steps' = [steps EXCEPT ![t] = Append(@, "transform")]
  /\ pc' = [pc EXCEPT ![t] = "unmap_read"]
  /\ UNCHANGED <<mapError, bootVars, ready, panicked, cursorVars, fr, readVer,
                 result, startContents, startWrites, mapping, doneTarget,
                 slotVars, surfaceVars, targetVars, gpuVars, frameCount>>

\* instance_buffer.unmap();   (after the read)
UnmapRead(t) ==
  /\ Running(t)
  /\ pc[t] = "unmap_read"
  /\ mapping' = [mapping EXCEPT ![t] = "none"]
  /\ steps' = [steps EXCEPT ![t] = Append(@, "unmap_read")]
  /\ pc' = [pc EXCEPT ![t] = "map_write"]
  /\ UNCHANGED <<mapError, bootVars, ready, panicked, cursorVars, fr, readVer,
                 vertices, result, startContents, startWrites, doneTarget,
                 slotVars, surfaceVars, targetVars, gpuVars, frameCount>>

\* instance_buffer_slice.map_async(wgpu::MapMode::Write)
MapWriteRequest(t) ==
  /\ Running(t)
  /\ pc[t] = "map_write"
  /\ mapping' = [mapping EXCEPT ![t] = "pending_write"]
  /\ pc' = [pc EXCEPT ![t] = "await_write"]
  /\ UNCHANGED <<mapError, bootVars, ready, panicked, cursorVars, fr, readVer,
                 vertices, result, steps, startContents, startWrites,
                 doneTarget, slotVars, surfaceVars, targetVars, gpuVars,
                 frameCount>>

\* A write-map whose failure is taken for success.
WriteMapFailureIgnored(t, outcome) ==
  /\ Running(t)
  /\ pc[t] = "await_write"
  /\ ready[t] = outcome
  /\ ready' = [ready EXCEPT ![t] = "none"]
  /\ mapping' = [mapping EXCEPT ![t] = "live_write"]
  /\ mapError' = [mapError EXCEPT ![t] = IF outcome = "Ok" THEN @ ELSE "write"]
  /\ steps' = [steps EXCEPT ![t] = Append(@, "write_map")]
  /\ pc' = [pc EXCEPT ![t] = "copy"]
  /\ UNCHANGED <<bootVars, panicked, cursorVars, fr, readVer, vertices,
                 result, startContents, startWrites, doneTarget, slotVars,
                 surfaceVars, targetVars, gpuVars, frameCount>>

\* .await?  on the write mapping
WriteMapResolved(t, outcome) ==
  /\ Running(t)
  /\ pc[t] = "await_write"
  /\ ready[t] = outcome
  /\ ready' = [ready EXCEPT ![t] = "none"]
  /\ IF outcome = "Ok"
       THEN /\ mapping' = [mapping EXCEPT ![t] = "live_write"]
            /\ steps' = [steps EXCEPT ![t] = Append(@, "write_map")]
            /\ pc' = [pc EXCEPT ![t] = "copy"]
            /\ UNCHANGED <<result, mapError>>
       ELSE /\ mapping' = [mapping EXCEPT ![t] = "none"]
            /\ mapError' = [mapError EXCEPT ![t] = "write"]
            /\ result' = [result EXCEPT ![t] = "err"]
            /\ pc' = [pc EXCEPT ![t] = "idle"]
            /\ UNCHANGED steps
  /\ UNCHANGED <<bootVars, panicked, cursorVars, fr, readVer, vertices,
                 startContents, startWrites, doneTarget, slotVars,
                 surfaceVars, targetVars, gpuVars, frameCount>>

\* get_mapped_range_mut().copy_from_slice(bytes_of(&vertices));
CopyFromSlice(t) ==
  /\ Running(t)
  /\ pc[t] = "copy"
  /\ contents' = [contents EXCEPT ![fr[t]] = vertices[t]]
  /\ writes' = [writes EXCEPT ![fr[t]] = @ + 1]
  /\ steps' = [steps EXCEPT ![t] = Append(@, "copy")]
  /\ pc' = [pc EXCEPT ![t] = "unmap_write"]
  /\ UNCHANGED <<mapError, bootVars, ready, panicked, cursorVars, fr, readVer,
                 vertices, result, startContents, startWrites, mapping,
                 doneTarget, surfaceVars, targetVars, gpuVars, frameCount>>

\* A write-back that goes on to the draw with the slot still mapped.
UnmapWriteForgotten(t) ==
  /\ Running(t)
  /\ pc[t] = "unmap_write"
  /\ steps' = [steps EXCEPT ![t] = Append(@, "unmap_write")]
  /\ pc' = [pc EXCEPT ![t] = "acquire"]
  /\ UNCHANGED <<mapError, bootVars, ready, panicked, cursorVars, fr, readVer,
                 vertices, result, startContents, startWrites, mapping,
                 doneTarget, slotVars, surfaceVars, targetVars, gpuVars,
                 frameCount>>

\* instance_buffer.unmap();   (after the write-back)
UnmapWrite(t) ==
  /\ Running(t)
  /\ pc[t] = "unmap_write"
  /\ mapping' = [mapping EXCEPT ![t] = "none"]
  /\ steps' = [steps EXCEPT ![t] = Append(@, "unmap_write")]
  /\ pc' = [pc EXCEPT ![t] = "acquire"]
  /\ UNCHANGED <<mapError, bootVars, ready, panicked, cursorVars, fr, readVer,
                 vertices, result, startContents, startWrites, doneTarget,
                 slotVars, surfaceVars, targetVars, gpuVars, frameCount>>

\* context.surface().get_current_texture().expect("Failed to get ...")
\* The frame target has the dimensions the surface was configured with.
AcquireFrame(t, outcome) ==
  /\ Running(t)
  /\ pc[t] = "acquire"
  /\ IF outcome = "Ok"
       THEN /\ lastTarget' = SizeOf(surfaceApplied)
            /\ acquired' = acquired + 1
            /\ steps' = [steps EXCEPT ![t] = Append(@, "acquire")]
            /\ pc' = [pc EXCEPT ![t] = "record"]
            /\ UNCHANGED <<panicked, acquireError>>
       ELSE /\ acquireError' = outcome
            /\ panicked' = TRUE
            /\ UNCHANGED <<lastTarget, acquired, steps, pc>>
  /\ UNCHANGED <<mapError, bootVars, ready, cursorVars, fr, readVer, vertices,
                 result, startContents, startWrites, mapping, doneTarget,
                 slotVars, surfaceVars, gpuVars, frameCount>>

\* begin_render_pass ... set_vertex_buffer(1, instance_buffer.slice(..)); draw
RecordRenderPass(t) ==
  /\ Running(t)
  /\ pc[t] = "record"
  /\ steps' = [steps EXCEPT ![t] = Append(@, "record")]
  /\ pc' = [pc EXCEPT ![t] = "submit"]
  /\ UNCHANGED <<mapError, bootVars, ready, panicked, cursorVars, fr, readVer,
                 vertices, result, startContents, startWrites, mapping,
                 doneTarget, slotVars, surfaceVars, targetVars, gpuVars,
                 frameCount>>

\* context.queue().submit(Some(encoder.finish()));
Submit(t) ==
  /\ Running(t)
  /\ pc[t] = "submit"
  /\ submitted' = submitted + 1
  /\ gpuQueue' = Append(gpuQueue, [id |-> submitted + 1, buffers |-> {fr[t]}])
  /\ steps' = [steps EXCEPT ![t] = Append(@, "submit")]
  /\ pc' = [pc EXCEPT ![t] = "present"]
  /\ UNCHANGED <<mapError, bootVars, ready, panicked, cursorVars, fr, readVer,
                 vertices, result, startContents, startWrites, mapping,
                 doneTarget, slotVars, surfaceVars, targetVars, frameCount>>

\* frame_buffer.present();
Present(t) ==
  /\ Running(t)
  /\ pc[t] = "present"
  /\ steps' = [steps EXCEPT ![t] = Append(@, "present")]
  /\ pc' = [pc EXCEPT ![t] = "work_done"]
  /\ UNCHANGED <<mapError, bootVars, ready, panicked, cursorVars, fr, readVer,
                 vertices, result, startContents, startWrites, mapping,
                 doneTarget, slotVars, surfaceVars, targetVars, gpuVars,
                 frameCount>>

\* context.queue().on_submitted_work_done()
OnSubmittedWorkDone(t) ==
  /\ Running(t)
  /\ pc[t] = "work_done"
  /\ doneTarget' = [doneTarget EXCEPT ![t] = submitted]
  /\ pc' = [pc EXCEPT ![t] = "await_done"]
  /\ UNCHANGED <<mapError, bootVars, ready, panicked, cursorVars, fr, readVer,
                 vertices, result, steps, startContents, startWrites, mapping,
                 slotVars, surfaceVars, targetVars, gpuVars, frameCount>>

\* The signal fires once every submission made before the request has run.
WorkFinished(t) == \A i \in 1 .. Len(gpuQueue) : gpuQueue[i].id > doneTarget[t]

\* A render that returns without waiting for the submitted work.
AwaitWorkDoneSkipped(t) ==
  /\ Running(t)
  /\ pc[t] = "await_done"
  /\ ready' = [ready EXCEPT ![t] = "none"]
  /\ steps' = [steps EXCEPT ![t] = Append(@, "work_done")]
  /\ result' = [result EXCEPT ![t] = "ok"]
  /\ pc' = [pc EXCEPT ![t] = "idle"]
  /\ UNCHANGED <<mapError, bootVars, panicked, cursorVars, fr, readVer,
                 vertices, startContents, startWrites, mapping, doneTarget,
                 slotVars, surfaceVars, targetVars, gpuVars, frameCount>>

\* .then(|_| async move { log::info!(...) }).await;  Ok(())
AwaitWorkDone(t) ==
  /\ Running(t)
  /\ pc[t] = "await_done"
  /\ ready[t] = "Ok"
  /\ ready' = [ready EXCEPT ![t] = "none"]
  /\ WorkFinished(t)
  /\ steps' = [steps EXCEPT ![t] = Append(@, "work_done")]
  /\ result' = [result EXCEPT ![t] = "ok"]
  /\ pc' = [pc EXCEPT ![t] = "idle"]
  /\ UNCHANGED <<mapError, bootVars, panicked, cursorVars, fr, readVer,
                 vertices, startContents, startWrites, mapping, doneTarget,
                 slotVars, surfaceVars, targetVars, gpuVars, frameCount>>

\* The device poller: it drives the device's completion queue, which hands
\* a pending map its result and fires the work-done signal once the work
\* submitted before the request has run.
DevicePoll(t, outcome) ==
  /\ Running(t)
  /\ ready[t] = "none"
  /\ \/ pc[t] \in {"await_read", "await_write"}
     \/ pc[t] = "await_done" /\ WorkFinished(t) /\ outcome = "Ok"
  /\ ready' = [ready EXCEPT ![t] = outcome]
  /\ UNCHANGED <<bootVars, panicked, cursorVars, pc, fr, readVer, vertices,
                 result, mapError, steps, startContents, startWrites, mapping,
                 doneTarget, slotVars, surfaceVars, targetVars, gpuVars,
                 frameCount>>

\* The device executes the oldest submitted command buffer.
GpuComplete ==
  /\ phase = "running"
  /\ ~panicked
  /\ gpuQueue # <<>>
  /\ gpuQueue' = Tail(gpuQueue)
  /\ UNCHANGED <<bootVars, panicked, cursorVars, taskVars, slotVars,
                 surfaceVars, targetVars, submitted, frameCount>>

\* ------------------------------------------- GPUContext::resize_surface

\* self.surface_configuration.width = size.width;
resize_surface_width(size) ==
  /\ variant = "renderer"
  /\ phase = "running"
  /\ ~panicked
  /\ resizePc = "idle"
  /\ ContextNotBorrowed
  /\ resizeArg' = size
  /\ surface_configuration' = [surface_configuration EXCEPT !.width = size.width]
  /\ resizePc' = "height"
  /\ UNCHANGED <<bootVars, panicked, cursorVars, taskVars, slotVars,
                 surfaceApplied, lastResize, lastConfigure, targetVars,
                 gpuVars, frameCount>>

\* self.surface_configuration.height = size.height;
resize_surface_height ==
  /\ variant = "renderer"
  /\ phase = "running"
  /\ ~panicked
  /\ resizePc = "height"
  /\ surface_configuration' =
       [surface_configuration EXCEPT !.height = resizeArg.height]
  /\ resizePc' = "configure"
  /\ UNCHANGED <<bootVars, panicked, cursorVars, taskVars, slotVars,
                 surfaceApplied, resizeArg, lastResize, lastConfigure,
                 targetVars, gpuVars, frameCount>>

\* A resize that updates the fields and never reconfigures the surface.
resize_surface_unconfigured(lib) ==
  /\ variant = "renderer"
  /\ phase = "running"
  /\ ~panicked
  /\ resizePc = "configure"
  /\ lib = "applied"
  /\ lastResize' = resizeArg
  /\ lastConfigure' = Returned(resizeArg, lib, "unit")
  /\ resizePc' = "idle"
  /\ resizeArg' = NoSize
  /\ UNCHANGED <<bootVars, panicked, cursorVars, taskVars, slotVars,
                 surface_configuration, surfaceApplied, targetVars, gpuVars,
                 frameCount>>

\* self.surface.configure(&self.device, &self.surface_configuration)
\* resize_surface has no return value.
resize_surface_configure(lib) ==
  /\ variant = "renderer"
  /\ phase = "running"
  /\ ~panicked
  /\ resizePc = "configure"
  /\ SurfaceConfigure(surface_configuration, lib)
  /\ lastConfigure' = Returned(resizeArg, lib, "unit")
  /\ IF lib = "applied"
       THEN lastResize' = resizeArg /\ resizePc' = "idle" /\ resizeArg' = NoSize
       ELSE UNCHANGED <<lastResize, resizePc, resizeArg>>
  /\ UNCHANGED <<bootVars, cursorVars, taskVars, slotVars,
                 surface_configuration, targetVars, gpuVars, frameCount>>

\* ------------------------------------------------- main.rs, the event loop

\* A configure_surface that asks for another present mode on a resize.
configure_surface_mailbox(size, lib) ==
  /\ SurfaceConfigure([SurfaceConfiguration(size) EXCEPT
                         !.present_mode = "Mailbox"], lib)
  /\ surface_configuration' =
       IF lib = "applied" THEN SurfaceConfiguration(size)
                          ELSE surface_configuration
  /\ lastConfigure' = Returned(size, lib, "Ok")

\* fn configure_surface(device, surface, surface_format, size) -> Result<()>
\* surface.configure(device, &SurfaceConfiguration { .. }); Ok(())
configure_surface(size, lib) ==
  /\ SurfaceConfigure(SurfaceConfiguration(size), lib)
  /\ surface_configuration' =
       IF lib = "applied" THEN SurfaceConfiguration(size)
                          ELSE surface_configuration
  /\ lastConfigure' = Returned(size, lib, "Ok")

\* WindowEvent::Resized(size) => configure_surface(..., size).unwrap()
Resized(size, lib) ==
  /\ variant = "main"
  /\ phase = "running"
  /\ ~panicked
  /\ configure_surface(size, lib)
  /\ lastResize' = IF lib = "applied" THEN size ELSE lastResize
  /\ UNCHANGED <<bootVars, cursorVars, taskVars, slotVars, resizePc,
                 resizeArg, targetVars, gpuVars, frameCount>>

\* WindowEvent::ScaleFactorChanged { new_inner_size, .. } => configure_surface
ScaleFactorChanged(new_inner_size, lib) ==
  /\ variant = "main"
  /\ phase = "running"
  /\ ~panicked
  /\ configure_surface(new_inner_size, lib)
  /\ lastResize' = IF lib = "applied" THEN new_inner_size ELSE lastResize
  /\ UNCHANGED <<bootVars, cursorVars, taskVars, slotVars, resizePc,
                 resizeArg, targetVars, gpuVars, frameCount>>

\* Event::RedrawRequested(..): acquire, record, submit, present
RedrawRequested(outcome) ==
  /\ variant = "main"
  /\ phase = "running"
  /\ ~panicked
  /\ frameCount < MaxFrames
  /\ frameCount' = frameCount + 1
  /\ IF outcome = "Ok"
       THEN /\ lastTarget' = SizeOf(surfaceApplied)
            /\ acquired' = acquired + 1
            /\ submitted' = submitted + 1
            /\ gpuQueue' = Append(gpuQueue, [id |-> submitted + 1, buffers |-> {}])
            /\ UNCHANGED <<panicked, acquireError>>
       ELSE /\ acquireError' = outcome
            /\ panicked' = TRUE
            /\ UNCHANGED <<lastTarget, acquired, submitted, gpuQueue>>
  /\ UNCHANGED <<bootVars, cursorVars, taskVars, slotVars, surfaceVars>>

\* ------------------------------------------------------------ the machine

Next ==
  \/ \E found \in BOOLEAN : RequestAdapter(found)
  \/ \E granted \in BOOLEAN : RequestDevice(granted)
  \/ \E found \in BOOLEAN : GetPreferredFormat(found)
  \/ ConfigureAtStartup
  \/ CreateRenderer
  \/ \E t \in Tasks : RenderBegin(t)
  \/ \E t \in Tasks : CursorWriteBack(t)
  \/ \E t \in Tasks : MapReadRequest(t)
  \/ \E t \in Tasks, o \in MapErrors : ReadMapResolved(t, o)
  \/ \E t \in Tasks : Transform(t)
  \/ \E t \in Tasks : UnmapRead(t)
  \/ \E t \in Tasks : MapWriteRequest(t)
  \/ \E t \in Tasks, o \in MapErrors : WriteMapResolved(t, o)
  \/ \E t \in Tasks : CopyFromSlice(t)
  \/ \E t \in Tasks : UnmapWrite(t)
  \/ \E t \in Tasks, o \in SurfaceResults : AcquireFrame(t, o)
  \/ \E t \in Tasks : RecordRenderPass(t)
  \/ \E t \in Tasks : Submit(t)
  \/ \E t \in Tasks : Present(t)
  \/ \E t \in Tasks : OnSubmittedWorkDone(t)
  \/ \E t \in Tasks : AwaitWorkDone(t)
  \/ \E t \in Tasks, o \in MapErrors : DevicePoll(t, o)
  \/ GpuComplete
  \/ \E size \in EventSizes : resize_surface_width(size)
  \/ resize_surface_height
  \/ \E lib \in LibOutcomes : resize_surface_configure(lib)
  \/ \E size \in EventSizes, lib \in LibOutcomes : Resized(size, lib)
  \/ \E size \in EventSizes, lib \in LibOutcomes : ScaleFactorChanged(size, lib)
  \/ \E o \in SurfaceResults : RedrawRequested(o)

Spec == Init /\ [][Next]_vars

\* ================================================================ claims

IsPrefix(a, b) == Len(a) <= Len(b) /\ \A i \in 1 .. Len(a) : a[i] = b[i]

InRender(t) == pc[t] # "idle"

MapOps(s) == {t \in Tasks : fr[t] = s /\ mapping[t] # "none"}

GpuReads(s) == \E i \in 1 .. Len(gpuQueue) : s \in gpuQueue[i].buffers

\* C1: a render call takes its steps in the order of RenderOrder, none
\* skipped or reordered, a successful call having taken all twelve; and from
\* the recording of the draw to its submission the selected slot has no
\* mapping and holds the vectors this call wrote back.
C1_RenderStepsInOrder ==
  \A t \in Tasks :
    /\ IsPrefix(steps[t], RenderOrder)
    /\ result[t] = "ok" => steps[t] = RenderOrder
    /\ pc[t] \in {"record", "submit", "present"} =>
         /\ MapOps(fr[t]) = {}
         /\ contents[fr[t]] = vertices[t]
         /\ writes[fr[t]] = startWrites[t] + 1

C1_Witness ==
  \E t \in Tasks : result[t] = "ok" /\ pc[t] = "idle" /\ steps[t] = RenderOrder

\* C2: while a frame is between its read of the cursor and its write-back,
\* the cursor has not been written since that read and no other frame is
\* between its own read and write-back.
C2_CursorAdvanceSerialized ==
  \A t \in Tasks :
    pc[t] = "advance" =>
      /\ readVer[t] = cursorVer
      /\ fr[t] = frame
      /\ \A u \in Tasks \ {t} : pc[u] # "advance"

C2_Witness ==
  \E t \in Tasks : pc[t] = "advance" /\ frameCount >= 2 /\ cursorVer >= 1

\* C3 as stated: the i-th call (from 0) selects (initial + i) mod 3.
C3_SelectedFromInitial ==
  \A i \in 1 .. Len(selected) :
    selected[i] = (InitialCursor + (i - 1)) % NUM_MAX_INFLIGHT_BUFFERS

\* C3, amended: the cursor is advanced before it selects, so the i-th call
\* (from 0) selects (initial + i + 1) mod 3.
C3_SelectedAfterAdvance ==
  \A i \in 1 .. Len(selected) :
    selected[i] = (InitialCursor + i) % NUM_MAX_INFLIGHT_BUFFERS

C3_Witness == Len(selected) > NUM_MAX_INFLIGHT_BUFFERS

\* C4: the frame cursor is an integer in [0,3) in every reachable state.
C4_CursorInRange ==
  phase = "running" => frame \in 0 .. (NUM_MAX_INFLIGHT_BUFFERS - 1)

\* C5: no slot has a pending or live mapping while a command buffer that
\* binds it is submitted and not yet executed.
C5_NoMapWhileGpuReads ==
  \A s \in Slots : MapOps(s) # {} => ~GpuReads(s)

C5_Witness ==
  \E t \in Tasks :
    mapping[t] # "none" /\ writes[fr[t]] >= 1 /\ submitted >= NUM_MAX_INFLIGHT_BUFFERS

\* A slot is active while a frame pipeline maps, writes or binds it, or a
\* submitted draw that binds it has not run.
Active(s) ==
  \/ MapOps(s) # {}
  \/ \E t \in Tasks :
       /\ fr[t] = s
       /\ pc[t] \in {"await_read", "transform", "unmap_read", "map_write",
                     "await_write", "copy", "unmap_write", "acquire", "record",
                     "submit"}
  \/ GpuReads(s)

\* C6: at most one slot is active at any instant, and no slot has two
\* pending or live map operations.
C6_OneActiveSlot ==
  /\ Cardinality({s \in Slots : Active(s)}) <= 1
  /\ \A s \in Slots : Cardinality(MapOps(s)) <= 1

C6_Witness ==
  \E s \in Slots : Active(s) /\ MapOps(s) # {} /\ frameCount >= 2

DrawSteps == {"copy", "acquire", "record", "submit", "present", "work_done"}

StepSet(t) == {steps[t][i] : i \in 1 .. Len(steps[t])}

\* C7: a call whose read-map or write-map failed has returned an error with
\* the slot unmapped and without copying, acquiring, recording, submitting
\* or presenting; the failing step leaves the process alive, the slot's
\* contents as they were when the call began, and nothing acquired or
\* submitted.
C7_MapFailureAborts ==
  /\ [](\A t \in Tasks :
          mapError[t] # "none" =>
            /\ result[t] = "err"
            /\ pc[t] = "idle"
            /\ mapping[t] = "none"
            /\ StepSet(t) \cap DrawSteps = {})
  /\ [][\A t \in Tasks :
          (mapError[t] = "none" /\ mapError'[t] # "none") =>
            /\ ~panicked'
            /\ contents'[fr[t]] = startContents[t]
            /\ writes'[fr[t]] = startWrites[t]
            /\ acquired' = acquired
            /\ submitted' = submitted]_vars

C7_Witness ==
  \E t \in Tasks : mapError[t] = "write" /\ result[t] = "err" /\ ~panicked

\* C8: a failed acquisition with a lost or outdated surface does not end
\* the process.
C8_StaleSurfaceSurvived ==
  acquireError \in {"Outdated", "Lost"} => ~panicked

\* C9: once a resize has been handled the stored and the applied surface
\* configuration have its size, and every frame target acquired from then
\* on, until the next resize is handled, has that size.
C9_ResizeBeforeRender ==
  /\ []((resizePc = "idle" /\ lastResize # NoSize) =>
          /\ SizeOf(surface_configuration) = lastResize
          /\ SizeOf(surfaceApplied) = lastResize)
  /\ [][(acquired' = acquired + 1 /\ lastResize # NoSize) =>
          lastTarget' = lastResize]_vars

C9_Witness ==
  /\ acquired >= 1
  /\ lastResize \in Sizes \ {InnerSize}
  /\ lastTarget = lastResize

\* C10: while a render call is alive no resize is under way, and the
\* surface configuration it runs under is a whole size that has been applied
\* to the surface.
C10_NoTornConfiguration ==
  \A t \in Tasks :
    InRender(t) =>
      /\ resizePc = "idle"
      /\ SizeOf(surface_configuration) \in EventSizes
      /\ surfaceApplied = surface_configuration
      /\ pc[t] \in {"record", "submit", "present"} =>
           lastTarget = SizeOf(surface_configuration)

C10_Witness ==
  \E t \in Tasks :
    /\ pc[t] = "record"
    /\ lastResize \in Sizes \ {InnerSize}
    /\ lastTarget = lastResize

\* ------------------------------------------- the machine under fairness

\* Everything a live render call does after it has begun.
RenderStep(t) ==
  \/ CursorWriteBack(t)
  \/ MapReadRequest(t)
  \/ \E o \in MapErrors : ReadMapResolved(t, o)
  \/ Transform(t)
  \/ UnmapRead(t)
  \/ MapWriteRequest(t)
  \/ \E o \in MapErrors : WriteMapResolved(t, o)
  \/ CopyFromSlice(t)
  \/ UnmapWrite(t)
  \/ \E o \in SurfaceResults : AcquireFrame(t, o)
  \/ RecordRenderPass(t)
  \/ Submit(t)
  \/ Present(t)
  \/ OnSubmittedWorkDone(t)
  \/ AwaitWorkDone(t)

\* The executor keeps running a call that can go on, the poller keeps
\* polling and the device keeps executing what was submitted.
Fairness ==
  /\ \A t \in Tasks : WF_vars(RenderStep(t))
  /\ \A t \in Tasks : WF_vars(\E o \in MapErrors : DevicePoll(t, o))
  /\ WF_vars(GpuComplete)

LiveSpec == Init /\ [][Next]_vars /\ Fairness

\* C11 as stated: while a frame's completion wait is pending the next
\* frame's pipeline can start.
C11_WaitIsNoGate ==
  (/\ \E u \in Tasks : pc[u] = "await_done"
   /\ ~panicked
   /\ resizePc = "idle"
   /\ frameCount < MaxFrames) =>
    ENABLED (\E t \in Tasks : RenderBegin(t))

C13_FirstFrameRotatesInstances ==
  (frameCount = 1 /\ Len(selected) = 1 /\ writes[selected[1]] = 1) =>
    contents[selected[1]] = RotateAll(Instances)

\* C14: no slot index is selected twice within 3 consecutive frames.
C14_NoRepeatInWindow ==
  \A i, j \in 1 .. Len(selected) :
    (i < j /\ j - i < NUM_MAX_INFLIGHT_BUFFERS) => selected[i] # selected[j]

C14_Witness == Len(selected) >= NUM_MAX_INFLIGHT_BUFFERS

\* C15 as stated: a configure call with a size the device does not support
\* hands its caller a configuration error.
C15_ConfigureErrorReturned ==
  (lastConfigure.returned # "none" /\ ~Supported(lastConfigure.size)) =>
    lastConfigure.returned = "Err"

\* C16: after a configure call has returned, the stored and the applied
\* surface configuration are the one built from its size argument alone,
\* with the startup format and FIFO, so a second call with the same size
\* leaves what the first one left.
C16_ConfigureIdempotent ==
  (resizePc = "idle" /\ lastConfigure.returned \in {"Ok", "unit"}) =>
    /\ surfaceApplied = SurfaceConfiguration(lastConfigure.size)
    /\ surface_configuration = SurfaceConfiguration(lastConfigure.size)
    /\ surfaceApplied.format = "preferred"
    /\ surfaceApplied.present_mode = "Fifo"

C16_Witness ==
  /\ lastResize \in Sizes \ {InnerSize}
  /\ lastConfigure.size = lastResize
  /\ resizePc = "idle"
  /\ acquired >= 1

\* C17: a startup that found no adapter, no device or no preferred format
\* has returned that error, and then the surface is never configured, no
\* buffer is created and no frame is rendered; an error is never passed over.
C17_StartupFailureIsFatal ==
  /\ [](startupError # "none" => phase = "failed")
  /\ [](phase = "failed" =>
          /\ startupError # "none"
          /\ surfaceApplied = NoConfig
          /\ surface_configuration = NoConfig
          /\ lastConfigure.returned = "none"
          /\ staticBuffers = NoBuffers
          /\ frameCount = 0 /\ selected = <<>>
          /\ acquired = 0 /\ submitted = 0)
  /\ [][phase = "failed" => phase' = "failed"]_vars

C17_Witness ==
  phase = "failed" /\ startupError = "There is no preferred format"

\* C18: every render call advances the cursor exactly once, as its first
\* step and before anything that can fail; only that step changes the
\* cursor; a call that failed has advanced it, and each call selects the
\* slot after the one the call before it selected.
C18_AdvanceOncePerCall ==
  /\ [](variant = "renderer" =>
          /\ cursorVer = Len(selected)
          /\ Len(selected) =
               frameCount - Cardinality({t \in Tasks : pc[t] = "advance"})
          /\ frame = IF selected = <<>> THEN InitialCursor
                     ELSE selected[Len(selected)]
          /\ \A i \in 2 .. Len(selected) :
               selected[i] = (selected[i - 1] + 1) % NUM_MAX_INFLIGHT_BUFFERS
          /\ \A t \in Tasks :
               /\ pc[t] = "advance" => (steps[t] = <<>> /\ mapping[t] = "none")
               /\ mapError[t] # "none" => steps[t] = <<"advance">> \/
                    steps[t] = SubSeq(RenderOrder, 1, 4))
  /\ [][frame' # frame =>
          \E t \in Tasks :
            /\ pc[t] = "advance"
            /\ pc'[t] = "map_read"
            /\ frame' = (frame + 1) % NUM_MAX_INFLIGHT_BUFFERS]_vars

C18_Witness ==
  \E t \in Tasks, u \in Tasks :
    /\ t # u
    /\ mapError[t] # "none"
    /\ pc[u] = "map_read"
    /\ Len(selected) >= 2

\* C19: the contents of a slot change only in the copy step of the call
\* that selected it, to that call's transformed vectors, and no step of a
\* render call changes the vertex buffer, the uniform buffer or the surface
\* configuration.
C19_OnlyCopyWritesSlot ==
  [][/\ \A s \in Slots :
          (contents'[s] # contents[s] \/ writes'[s] # writes[s]) =>
            \E t \in Tasks :
              /\ pc[t] = "copy"
              /\ pc'[t] = "unmap_write"
              /\ fr[t] = s
              /\ contents'[s] = vertices[t]
              /\ writes'[s] = writes[s] + 1
     /\ (\E t \in Tasks : pc'[t] # pc[t]) =>
          UNCHANGED <<staticBuffers, surface_configuration, surfaceApplied>>]_vars

C19_Witness ==
  \E t \in Tasks :
    /\ pc[t] = "unmap_write"
    /\ writes[fr[t]] = 1
    /\ \A s \in Slots \ {fr[t]} : writes[s] = 0
    /\ staticBuffers = CreatedBuffers

RECURSIVE RotateTimes(_, _)
RotateTimes(vs, n) == IF n = 0 THEN vs ELSE RotateTimes(RotateAll(vs), n - 1)

TotalWrites == writes[0] + writes[1] + writes[2]

\* C20: in a run where every frame so far wrote its slot back, the slot
\* the k-th frame draws has been written ceil(k/3) times and holds its
\* initial contents rotated that many times.
C20_RotationPerSlot ==
  \A t \in Tasks :
    (pc[t] \in {"record", "submit", "present"} /\ TotalWrites = Len(selected)) =>
      /\ writes[fr[t]] = (Len(selected) + 2) \div NUM_MAX_INFLIGHT_BUFFERS
      /\ contents[fr[t]] =
           RotateTimes(ZeroedBuffer,
                       (Len(selected) + 2) \div NUM_MAX_INFLIGHT_BUFFERS)

C20_Witness ==
  \E t \in Tasks :
    /\ pc[t] = "submit"
    /\ Len(selected) > NUM_MAX_INFLIGHT_BUFFERS
    /\ TotalWrites = Len(selected)
    /\ writes[fr[t]] = 2

====
